---- MODULE Spec2Model ----
\* A model of tftools (kamek-pf/tftools): the label registry
\* (src/pascal_voc/label_map.rs), the deterministic CRC partitioner
\* (src/math.rs) and the prepare pipeline (src/pascal_voc/features/prepare.rs).
\*
\* Three specifications share the module, one per component; each keeps the
\* variables of the other components at their idle values:
\*   SpecLabelMap  calls of LabelMap::add / LabelMap::get on one registry
\*   SpecSplit     one call of math::split on a bounded input
\*   Spec          one run of prepare, statement by statement
\*   SpecRecordBuilder  calls of RecordBuilder::add_example on one builder,
\*                      then its conversion to an Example
EXTENDS Integers, Sequences, FiniteSets, TLC

\* ---------------------------------------------------------------- bounds

\* Number of distinct label strings the environment can use.
NumLabels == 3
\* Longest input vector handed to math::split.
MaxLen == 3
\* Number of add/get calls made on the registry under SpecLabelMap.
MaxCalls == 5

LabelNames == <<"dog", "cat", "hotdog", "person", "bird">>
Labels == {LabelNames[i] : i \in 1..NumLabels}

\* ---------------------------------------------------- 32-bit arithmetic
\* A u32 is kept as <<hi, lo>>, two 16-bit halves (value = hi * 2^16 + lo),
\* so that no intermediate value leaves the checker's integer range.

Half == 2^16
HalfMax == 2^16 - 1
U32Max == <<HalfMax, HalfMax>>

U32Lt(a, b) == a[1] < b[1] \/ (a[1] = b[1] /\ a[2] < b[2])
U32Ge(a, b) == ~U32Lt(a, b)

RECURSIVE XorBits(_, _, _)
XorBits(a, b, n) ==
    IF n = 0 THEN 0
    ELSE (((a % 2) + (b % 2)) % 2) + 2 * XorBits(a \div 2, b \div 2, n - 1)

U32Xor(a, b) == <<XorBits(a[1], b[1], 16), XorBits(a[2], b[2], 16)>>
U32Shr1(a) == <<a[1] \div 2, (a[2] \div 2) + ((a[1] % 2) * 32768)>>

\* Reflected IEEE 802.3 polynomial 0xEDB88320.
PolyIeee == <<60856, 33568>>

\* n shift steps of the reflected CRC register.
RECURSIVE CrcShift(_, _)
CrcShift(crc, n) ==
    IF n = 0 THEN crc
    ELSE IF (crc[2] % 2) = 1
         THEN CrcShift(U32Xor(U32Shr1(crc), PolyIeee), n - 1)
         ELSE CrcShift(U32Shr1(crc), n - 1)

\* The register after one more byte.
CrcUpdate(crc, byte) == CrcShift(U32Xor(crc, <<0, byte>>), 8)

\* The register after the first n bytes, starting from 0xFFFFFFFF.
RECURSIVE CrcBytes(_, _)
CrcBytes(bytes, n) ==
    IF n = 0 THEN U32Max
    ELSE CrcUpdate(CrcBytes(bytes, n - 1), bytes[n])

\* crc32::checksum_ieee: initial value 0xFFFFFFFF, final xor 0xFFFFFFFF.
checksum_ieee(bytes) ==
    U32Xor(CrcBytes(bytes, Len(bytes)), U32Max)

\* ------------------------------------------------------------ math::split

\* The f64 `right_ratio` of split, in hundredths: ratio/100 for ratio <= 100,
\* and the literal 100f64 (= 10000 hundredths) for ratio > 100.
RightRatioPct(ratio) == IF ratio > 100 THEN 10000 ELSE ratio

\* (len as f64 * right_ratio).round() as usize
RoundedCapacity(len, pct) == (len * pct + 50) \div 100

\* (u32::max_value() as f64 * right_ratio).round() as u32 ; the cast saturates.
Threshold(pct) ==
    IF pct >= 100 THEN U32Max
    ELSE LET a  == HalfMax * pct
             lo == (((a % 100) * Half) + a + 50) \div 100
             hi == (a \div 100) + (lo \div Half)
         IN  <<hi, (lo % Half)>>

RECURSIVE SplitLoop(_, _, _, _, _)
SplitLoop(input, i, threshold, left, right) ==
    IF i > Len(input) THEN [status |-> "ok", left |-> left, right |-> right]
    ELSE LET element == input[i]
             crc == checksum_ieee(element)
         IN  IF U32Ge(crc, threshold)
             THEN SplitLoop(input, i + 1, threshold, Append(left, element), right)
             ELSE SplitLoop(input, i + 1, threshold, left, Append(right, element))

Panic == [status |-> "panic", left |-> <<>>, right |-> <<>>]
NoCall(status) == [status |-> status, left |-> <<>>, right |-> <<>>]

\* A mutant of split: the comparison keeps only the elements below the
\* threshold and drops an element that ties with it or lies above.
RECURSIVE SplitLoopDrop(_, _, _, _, _)
SplitLoopDrop(input, i, threshold, left, right) ==
    IF i > Len(input) THEN [status |-> "ok", left |-> left, right |-> right]
    ELSE LET element == input[i]
             crc == checksum_ieee(element)
         IN  IF U32Ge(crc, threshold)
             THEN SplitLoopDrop(input, i + 1, threshold, <<element>>, right)
             ELSE SplitLoopDrop(input, i + 1, threshold, left, Append(right, element))

split_overwrite(input, right_ratio) ==
    LET pct == RightRatioPct(right_ratio)
        right_capacity == RoundedCapacity(Len(input), pct)
    IN  IF right_capacity > Len(input) THEN Panic
        ELSE SplitLoopDrop(input, 1, Threshold(pct), <<>>, <<>>)

\* A mutant of split: the comparison is turned around.
RECURSIVE SplitLoopSwap(_, _, _, _, _)
SplitLoopSwap(input, i, threshold, left, right) ==
    IF i > Len(input) THEN [status |-> "ok", left |-> left, right |-> right]
    ELSE LET element == input[i]
             crc == checksum_ieee(element)
         IN  IF U32Ge(crc, threshold)
             THEN SplitLoopSwap(input, i + 1, threshold, left, Append(right, element))
             ELSE SplitLoopSwap(input, i + 1, threshold, Append(left, element), right)

split_swapped(input, right_ratio) ==
    LET pct == RightRatioPct(right_ratio)
        right_capacity == RoundedCapacity(Len(input), pct)
    IN  IF right_capacity > Len(input) THEN Panic
        ELSE SplitLoopSwap(input, 1, Threshold(pct), <<>>, <<>>)

\* split(input, right_ratio): `input.len() - right_capacity` underflows when
\* right_capacity > len; a checked build panics on the subtraction, an
\* unchecked one asks Vec::with_capacity for more than isize::MAX bytes and
\* panics with a capacity overflow. Either way the call does not return.
split(input, right_ratio) ==
    LET pct == RightRatioPct(right_ratio)
        right_capacity == RoundedCapacity(Len(input), pct)
    IN  IF right_capacity > Len(input) THEN Panic
        ELSE SplitLoop(input, 1, Threshold(pct), <<>>, <<>>)

\* --------------------------------------------------------------- LabelMap

None == <<>>
Some(v) == <<v>>

EmptyMap == [l \in {} |-> 0]

\* LabelMap::new
LabelMap_new == [index |-> 1, map |-> EmptyMap]

\* LabelMap::get
LabelMap_get(lm, label) ==
    IF label \in DOMAIN lm.map THEN Some(lm.map[label]) ELSE None

\* A mutant of add: the counter is not advanced after an insertion.
LabelMap_add_noincr(lm, label) ==
    LET current == lm.index
    IN  IF LabelMap_get(lm, label) = None
        THEN [lm  |-> [index |-> lm.index,
                       map   |-> lm.map @@ (label :> current)],
              ret |-> current]
        ELSE [lm |-> lm, ret |-> current]

\* A mutant of add: the insertion is made whether or not the label is known.
LabelMap_add_reinsert(lm, label) ==
    LET current == lm.index
    IN  [lm  |-> [index |-> lm.index + 1,
                  map   |-> (label :> current) @@ lm.map],
         ret |-> current]

\* LabelMap::add: the new registry and the returned id.
LabelMap_add(lm, label) ==
    LET current == lm.index
    IN  IF LabelMap_get(lm, label) = None
        THEN [lm  |-> [index |-> lm.index + 1,
                       map   |-> lm.map @@ (label :> current)],
              ret |-> current]
        ELSE [lm |-> lm, ret |-> current]

\* --------------------------------------------------------- files and paths

\* A path is kept as its directory, file stem and extension.
Path(dir, stem, ext) == [dir |-> dir, stem |-> stem, ext |-> ext]

\* A file name ("1.jpg") is a stem and an extension.
FileName(stem, ext) == [stem |-> stem, ext |-> ext]

\* Path::set_file_name
set_file_name(path, name) == Path(path.dir, name.stem, name.ext)

\* str::to_lowercase, on the extensions that occur.
to_lowercase(ext) ==
    CASE ext = "PNG" -> "png"
      [] ext = "JPG" -> "jpg"
      [] ext = "XML" -> "xml"
      [] OTHER -> ext

Ok(v) == [ok |-> TRUE, val |-> v]
Err(e) == [ok |-> FALSE, val |-> e]

\* The image files of the input tree and their bytes. The CRC-32 of the
\* three contents is 0xA505DF1B, 0x32D70693 and 0xFFFFFFFF.
Disk ==
    (Path("/in", "1", "jpg") :> <<1>>)
    @@ (Path("/in", "2", "jpg") :> <<10>>)
    @@ (Path("/in/sub", "3", "PNG") :> <<255, 255, 255, 255>>)
    @@ (Path("/in", "7", "bmp") :> <<2, 4>>)

\* fs::read
fs_read(path) == IF path \in DOMAIN Disk THEN Ok(Disk[path]) ELSE Err("Io")

Object(name, xmin, ymin, xmax, ymax) ==
    [name |-> name,
     bndbox |-> [xmin |-> xmin, ymin |-> ymin, xmax |-> xmax, ymax |-> ymax]]

\* What an annotation file deserializes to (system_path is not in the file).
Doc(filename, path, width, height, objects) ==
    [filename |-> filename, path |-> path,
     size |-> [width |-> width, height |-> height, depth |-> 3],
     objects |-> objects]

\* An .xml file of the input tree: whether it can be read, and the document
\* it holds (None when it is malformed).
Xml(path, readable, doc) == [path |-> path, readable |-> readable, doc |-> doc]

\* The annotation files the walk can discover:
\*  1 image beside it, declared path valid         4 image file missing
\*  2 data set moved: declared path is stale       5 malformed document
\*  3 upper-case extensions, in a subdirectory     6 unreadable file
XmlFixtures == <<
    Xml(Path("/in", "1", "xml"), TRUE,
        Some(Doc(FileName("1", "jpg"), Path("/in", "1", "jpg"), 480, 360,
                 <<Object("dog", 85, 1, 381, 244), Object("cat", 10, 20, 100, 200)>>))),
    Xml(Path("/in", "2", "xml"), TRUE,
        Some(Doc(FileName("2", "jpg"), Path("/home/labeler", "2", "jpg"), 1000, 667,
                 <<Object("hotdog", 100, 50, 900, 600)>>))),
    Xml(Path("/in/sub", "3", "XML"), TRUE,
        Some(Doc(FileName("3", "PNG"), Path("/in/sub", "3", "PNG"), 640, 480,
                 <<Object("dog", 0, 0, 640, 480)>>))),
    Xml(Path("/in", "4", "xml"), TRUE,
        Some(Doc(FileName("4", "jpg"), Path("/in", "4", "jpg"), 640, 480,
                 <<Object("cat", 5, 5, 50, 50), Object("hotdog", 1, 2, 3, 4)>>))),
    Xml(Path("/in", "5", "xml"), TRUE, None),
    Xml(Path("/in", "6", "xml"), FALSE, None) >>

\* ------------------------------------------------- Annotation::from_file

from_file(xml) ==
    IF ~xml.readable THEN Err("Io")
    ELSE IF xml.doc = None THEN Err("Deserialize")
    ELSE LET example == xml.doc[1]
         IN  Ok([filename    |-> example.filename,
                 path        |-> example.path,
                 system_path |-> set_file_name(xml.path, example.filename),
                 size        |-> example.size,
                 objects     |-> example.objects])

\* ----------------------------------------------------------- math::retain

\* retain(bytes, ratio): the ratio is clamped to [0,100]; true when the
\* IEEE CRC-32 of the bytes is below round((ratio/100) * 0xFFFFFFFF).
retain(bytes, ratio) ==
    LET clamped == IF ratio > 100 THEN 100 ELSE ratio
    IN  U32Lt(checksum_ieee(bytes), Threshold(clamped))

\* ---------------------------------------------------------- RecordBuilder

EmptyFeatures ==
    [height |-> <<>>, width |-> <<>>, filename |-> <<>>, image_bytes |-> <<>>,
     image_format |-> <<>>, xmins |-> <<>>, xmaxs |-> <<>>, ymins |-> <<>>,
     ymaxs |-> <<>>, classes |-> <<>>, classes_text |-> <<>>]

\* RecordBuilder::new
RecordBuilder_new(max_size, label_map) ==
    [label_map |-> label_map, max_size |-> max_size, current_size |-> 0,
     current_chunk |-> 0, ignored |-> <<>>, features |-> EmptyFeatures]

\* math::normalize: the f64 quotient (value - min) / (max - min), kept as the
\* fraction it is computed from.
normalize(value, min, max) == [num |-> value - min, den |-> max - min]

\* A mutant of map_labels: the objects whose label is not in the registry are
\* left out (a filter_map in place of the collect into an Option).
map_labels_known_only(example, label_map) ==
    LET Known(o) == LabelMap_get(label_map, o.name) # None
        known == SelectSeq(example.objects, Known)
    IN  Some([i \in 1..Len(known) |-> LabelMap_get(label_map, known[i].name)[1]])

\* map_labels: Some(ids) when every object's label is in the registry.
map_labels(example, label_map) ==
    LET got == [i \in 1..Len(example.objects) |->
                    LabelMap_get(label_map, example.objects[i].name)]
    IN  IF \E i \in 1..Len(got) : got[i] = None THEN None
        ELSE Some([i \in 1..Len(got) |-> got[i][1]])

get_normalized_coordinates(example) ==
    LET n == Len(example.objects)
        width == example.size.width
        height == example.size.height
    IN  [xmins |-> [i \in 1..n |-> normalize(example.objects[i].bndbox.xmin, 0, width)],
         xmaxs |-> [i \in 1..n |-> normalize(example.objects[i].bndbox.xmax, 0, width)],
         ymins |-> [i \in 1..n |-> normalize(example.objects[i].bndbox.ymin, 0, height)],
         ymaxs |-> [i \in 1..n |-> normalize(example.objects[i].bndbox.ymax, 0, height)]]

\* A mutant of add_example: the size estimate is updated as soon as the image
\* is read, before the labels are mapped.
add_example_size_first(rb, example) ==
    LET ext == IF to_lowercase(example.path.ext) \in {"png", "jpg", "jpeg"}
               THEN Some(example.path.ext) ELSE None
        read == fs_read(example.path)
        ignore == [rb EXCEPT !.ignored = Append(@, example.path)]
    IN  IF ext # None /\ read.ok
        THEN LET bytes == read.val
                 mapped_labels == map_labels(example, rb.label_map)
                 coords == get_normalized_coordinates(example)
                 f == rb.features
             IN  IF mapped_labels = None
                 THEN [ignore EXCEPT !.current_size = @ + Len(bytes)]
                 ELSE [rb EXCEPT
                        !.current_size = @ + Len(bytes),
                        !.features =
                          [classes      |-> Append(f.classes, mapped_labels[1]),
                           xmins        |-> Append(f.xmins, coords.xmins),
                           xmaxs        |-> Append(f.xmaxs, coords.xmaxs),
                           ymins        |-> Append(f.ymins, coords.ymins),
                           ymaxs        |-> Append(f.ymaxs, coords.ymaxs),
                           classes_text |-> Append(f.classes_text,
                               [i \in 1..Len(example.objects) |-> example.objects[i].name]),
                           height       |-> f.height \o <<example.size.height,
                                                           example.size.width>>,
                           width        |-> f.width,
                           filename     |-> Append(f.filename, example.filename),
                           image_bytes  |-> Append(f.image_bytes, bytes),
                           image_format |-> Append(f.image_format, ext[1])]]
        ELSE ignore

\* RecordBuilder::add_example
add_example(rb, example) ==
    LET ext == IF to_lowercase(example.path.ext) \in {"png", "jpg", "jpeg"}
               THEN Some(example.path.ext) ELSE None
        read == fs_read(example.path)
        ignore == [rb EXCEPT !.ignored = Append(@, example.path)]
    IN  IF ext # None /\ read.ok
        THEN LET bytes == read.val
                 mapped_labels == map_labels(example, rb.label_map)
                 coords == get_normalized_coordinates(example)
                 f == rb.features
             IN  IF mapped_labels = None THEN ignore
                 ELSE [rb EXCEPT
                        !.current_size = @ + Len(bytes),
                        !.features =
                          [classes      |-> Append(f.classes, mapped_labels[1]),
                           xmins        |-> Append(f.xmins, coords.xmins),
                           xmaxs        |-> Append(f.xmaxs, coords.xmaxs),
                           ymins        |-> Append(f.ymins, coords.ymins),
                           ymaxs        |-> Append(f.ymaxs, coords.ymaxs),
                           classes_text |-> Append(f.classes_text,
                               [i \in 1..Len(example.objects) |-> example.objects[i].name]),
                           height       |-> f.height \o <<example.size.height,
                                                           example.size.width>>,
                           width        |-> f.width,
                           filename     |-> Append(f.filename, example.filename),
                           image_bytes  |-> Append(f.image_bytes, bytes),
                           image_format |-> Append(f.image_format, ext[1])]]
        ELSE ignore

\* impl From<BuilderFeatures> for Example: the attribute map of the example.
Example_from(builder_features) ==
    LET source_id == builder_features.filename
    IN  ("image/height" :> builder_features.height)
        @@ ("image/width" :> builder_features.width)
        @@ ("image/filename" :> builder_features.filename)
        @@ ("image/source_id" :> source_id)
        @@ ("image/encoded" :> builder_features.image_bytes)
        @@ ("image/format" :> builder_features.image_format)
        @@ ("image/object/bbox/xmin" :> builder_features.xmins)

\* ---------------------------------------------------------------- prepare

\* A mutant of collect: a file that fails to parse is passed over.
collect_skip_err(st, xml) ==
    LET parsed == from_file(xml)
    IN  IF parsed.ok
        THEN [input_examples |-> Append(st.input_examples, parsed.val),
              report |-> [st.report EXCEPT !.valid_annotations = @ + 1]]
        ELSE st

\* What the closure of prepare does with one discovered path.
collect(st, xml) ==
    LET parsed == from_file(xml)
    IN  IF parsed.ok
        THEN [input_examples |-> Append(st.input_examples, parsed.val),
              report |-> [st.report EXCEPT !.valid_annotations = @ + 1]]
        ELSE [input_examples |-> st.input_examples,
              report |-> [st.report EXCEPT
                  !.invalid_annotations = Append(@, <<xml.path, parsed.val>>)]]

\* examples.iter().flat_map(|e| e.objects.iter())
RECURSIVE flat_objects(_)
flat_objects(examples) ==
    IF examples = <<>> THEN <<>>
    ELSE Head(examples).objects \o flat_objects(Tail(examples))

RECURSIVE add_all(_, _, _)
add_all(lm, objects, n) ==
    IF n = 0 THEN lm
    ELSE LabelMap_add(add_all(lm, objects, n - 1), objects[n].name).lm

\* A mutant of gen_label_map: only the first example's objects are added.
build_label_map_first_only(examples) ==
    LET objects == IF examples = <<>> THEN <<>> ELSE Head(examples).objects
    IN  add_all(LabelMap_new, objects, Len(objects))

\* gen_label_map, the registry it builds.
build_label_map(examples) ==
    LET objects == flat_objects(examples)
    IN  add_all(LabelMap_new, objects, Len(objects))

\* From<LabelMap> for StringIntLabelMap: one item per entry, in no fixed order.
label_map_items(lm) == {[name |-> l, id |-> lm.map[l]] : l \in DOMAIN lm.map}

\* A mutant of the partition predicate: an image that cannot be read counts
\* as retained (unwrap_or(true)).
retained_or_true(annotation, ratio) ==
    LET read == fs_read(annotation.system_path)
    IN  IF read.ok THEN retain(read.val, ratio) ELSE TRUE

\* split_dataset: (test, train) by retain on the bytes at system_path; an
\* image that cannot be read counts as not retained.
retained(annotation, ratio) ==
    LET read == fs_read(annotation.system_path)
    IN  IF read.ok THEN retain(read.val, ratio) ELSE FALSE

split_dataset(examples, ratio) ==
    LET Keep(a) == retained(a, ratio)
        Rest(a) == ~retained(a, ratio)
    IN  [test |-> SelectSeq(examples, Keep), train |-> SelectSeq(examples, Rest)]

\* A mutant of gen_tfrecord: the emptiness check is missing.
is_empty_never(examples) == FALSE

\* gen_tfrecord: whether the partition is skipped.
is_empty(examples) == examples = <<>>

\* ------------------------------------------------------------------ state

VARIABLES
    registry,     \* SpecLabelMap: the LabelMap under test, [index, map]
    order,        \* SpecLabelMap: history, the labels in the order first added
    call,         \* SpecLabelMap: history, the last call and what it returned
    assigned,     \* SpecLabelMap: history, the id each label held when first stored
    ncalls,       \* SpecLabelMap: number of calls made
    input,        \* SpecSplit: the vector handed to split
    right_ratio,  \* SpecSplit: the u8 ratio handed to split
    split_out,    \* SpecSplit: "pending", or the outcome of the call
    pc,             \* Spec: the statement of prepare that runs next
    test_set_ratio, \* Spec: opts.test_set_ratio
    paths,          \* Spec: the .xml files get_xml_paths returns, in walk order
    cursor,         \* Spec: index of the next path the for_each visits
    input_examples, \* Spec: the annotations parsed so far
    report,         \* Spec: the Report
    label_map,      \* Spec: None, or Some(registry) once gen_label_map returned
    test,           \* Spec: the test partition
    train,          \* Spec: the train partition
    part,           \* Spec: the gen_tfrecord call in progress, "test" or "train"
    queue,          \* Spec: the examples gen_tfrecord has still to add
    record,         \* Spec: None, or Some(RecordBuilder) of the call in progress
    out,            \* Spec: the output directory and the files written to it
    result,         \* Spec: what prepare returned, if it has
    warned,         \* Spec: the file names a warning was logged for
    builder,        \* SpecRecordBuilder: the RecordBuilder under test
    log,            \* SpecRecordBuilder: history, each call's argument and effect
    emitted         \* SpecRecordBuilder: None, or Some(Example) once converted

labelVars == <<registry, order, call, assigned, ncalls>>
splitVars == <<input, right_ratio, split_out>>
prepareVars == <<pc, test_set_ratio, paths, cursor, input_examples, report, label_map,
                 test, train, part, queue, record, out, result, warned>>

builderVars == <<builder, log, emitted>>

vars == <<labelVars, splitVars, prepareVars, builderVars>>

IdleLabel ==
    /\ registry = LabelMap_new
    /\ order = <<>>
    /\ assigned = EmptyMap
    /\ call = [op |-> "new", label |-> "", ret |-> None]
    /\ ncalls = 0

IdleSplit ==
    /\ input = <<>>
    /\ right_ratio = 0
    /\ split_out = NoCall("idle")

\* Report::default
Report_default ==
    [valid_annotations |-> 0, invalid_annotations |-> <<>>,
     train |-> FALSE, test |-> FALSE, labels |-> FALSE]

NoFiles == [f \in {} |-> {}]
Running == [status |-> "running", err |-> ""]

IdlePrepare ==
    /\ pc = "idle"
    /\ test_set_ratio = 0
    /\ paths = <<>>
    /\ cursor = 1
    /\ input_examples = <<>>
    /\ report = Report_default
    /\ label_map = None
    /\ test = <<>>
    /\ train = <<>>
    /\ part = ""
    /\ queue = <<>>
    /\ record = None
    /\ out = [dir |-> FALSE, files |-> NoFiles]
    /\ result = Running
    /\ warned = <<>>

IdleBuilder ==
    /\ builder = RecordBuilder_new(0, LabelMap_new)
    /\ log = <<>>
    /\ emitted = None

\* ----------------------------------------------------------- SpecLabelMap

Range(s) == {s[i] : i \in 1..Len(s)}

InitLabelMap ==
    /\ IdleLabel
    /\ IdleSplit
    /\ IdlePrepare
    /\ IdleBuilder

Add(label) ==
    /\ ncalls < MaxCalls
    /\ LET r == LabelMap_add(registry, label)
       IN  /\ registry' = r.lm
           /\ call' = [op |-> "add", label |-> label, ret |-> Some(r.ret)]
           /\ assigned' = IF label \in DOMAIN assigned THEN assigned
                           ELSE assigned @@ (label :> r.lm.map[label])
    /\ order' = IF label \in Range(order) THEN order ELSE Append(order, label)
    /\ ncalls' = ncalls + 1
    /\ UNCHANGED <<splitVars, prepareVars, builderVars>>

Get(label) ==
    /\ ncalls < MaxCalls
    /\ call' = [op |-> "get", label |-> label, ret |-> LabelMap_get(registry, label)]
    /\ ncalls' = ncalls + 1
    /\ UNCHANGED <<registry, order, assigned>>
    /\ UNCHANGED <<splitVars, prepareVars, builderVars>>

NextLabelMap ==
    \/ \E label \in Labels : Add(label)
    \/ \E label \in Labels : Get(label)

SpecLabelMap == InitLabelMap /\ [][NextLabelMap]_vars

\* -------------------------------------------------------------- SpecSplit

\* The byte strings an element of the input can be. The CRC-32 of
\* <<255,255,255,255>> is 0xFFFFFFFF, that of <<1>> .. <<10>> are the values
\* test_split relies on.
Items == {<<1>>, <<2>>, <<4>>, <<10>>, <<255, 255, 255, 255>>}

RECURSIVE SeqsUpTo(_, _)
SeqsUpTo(S, n) ==
    IF n = 0 THEN {<<>>}
    ELSE LET shorter == SeqsUpTo(S, n - 1)
         IN  shorter \cup {Append(s, x) : s \in {t \in shorter : Len(t) = n - 1}, x \in S}

\* Ratios handed to split: the u8 range, sampled at its ends, around the
\* thresholds of the items and above 100.
Ratios == {0, 1, 19, 20, 23, 24, 50, 64, 65, 84, 99, 100, 101, 200, 255}

InitSplit ==
    /\ IdleLabel
    /\ IdlePrepare
    /\ IdleBuilder
    /\ input \in SeqsUpTo(Items, MaxLen)
    /\ right_ratio \in Ratios
    /\ split_out = NoCall("pending")

Split ==
    /\ split_out.status = "pending"
    /\ split_out' = split(input, right_ratio)
    /\ UNCHANGED <<input, right_ratio>>
    /\ UNCHANGED <<labelVars, prepareVars, builderVars>>

NextSplit == Split

SpecSplit == InitSplit /\ [][NextSplit]_vars

\* ------------------------------------------------------------------- Spec
\* One run of prepare(opts) over the files a walk of opts.input discovers.

\* Longest list of annotation files a walk returns.
MaxFiles == 3

\* Sequences of at most n distinct elements of S.
RECURSIVE DistinctSeqs(_, _)
DistinctSeqs(S, n) ==
    IF n = 0 THEN {<<>>}
    ELSE LET shorter == DistinctSeqs(S, n - 1)
         IN  shorter \cup
             UNION {{Append(q, x) : x \in S \ Range(q)} :
                        q \in {t \in shorter : Len(t) = n - 1}}

\* opts.test_set_ratio is a u8; sampled at its ends, between the checksums of
\* the images and above 100.
TestRatios == {0, 20, 65, 100, 255}

\* The ways a write of an output file can go: done; the file cannot be
\* opened; a write fails after the file was created; the BufWriter's flush on
\* drop fails, which the drop swallows.
put(files, name, content) ==
    [n \in (DOMAIN files) \cup {name} |-> IF n = name THEN content ELSE files[n]]

\* LabelMap::write_to_file
write_to_file(lm, files, name, how) ==
    LET whole == [complete |-> TRUE, items |-> label_map_items(lm)]
        cut   == [complete |-> FALSE, items |-> {}]
    IN  CASE how = "ok"        -> [ret |-> Ok("()"), files |-> put(files, name, whole)]
          [] how = "open_err"  -> [ret |-> Err("Io"), files |-> files]
          [] how = "write_err" -> [ret |-> Err("Io"), files |-> put(files, name, cut)]
          [] how = "flush_err" -> [ret |-> Ok("()"), files |-> put(files, name, cut)]

\* RecordBuilder::write_tfrecord: one frame per buffered example.
write_tfrecord(rb, files, name, how) ==
    LET whole == [complete |-> TRUE, frames |-> rb.features]
        cut   == [complete |-> FALSE, frames |-> EmptyFeatures]
    IN  CASE how = "ok"        -> [ret |-> Ok("()"), files |-> put(files, name, whole)]
          [] how = "open_err"  -> [ret |-> Err("Io"), files |-> files]
          [] how = "write_err" -> [ret |-> Err("Io"), files |-> put(files, name, cut)]

file_name(p) == IF p = "test" THEN "test.tfrecord" ELSE "train.tfrecord"

Init ==
    /\ IdleLabel
    /\ IdleSplit
    /\ IdleBuilder
    /\ pc = "create_dir"
    /\ test_set_ratio \in TestRatios
    /\ \E ix \in DistinctSeqs(1..Len(XmlFixtures), MaxFiles) :
          paths = [i \in 1..Len(ix) |-> XmlFixtures[ix[i]]]
    /\ cursor = 1
    /\ input_examples = <<>>
    /\ report = Report_default
    /\ label_map = None
    /\ test = <<>>
    /\ train = <<>>
    /\ part = ""
    /\ queue = <<>>
    /\ record = None
    /\ out \in {[dir |-> d, files |-> NoFiles] : d \in BOOLEAN}
    /\ result = Running
    /\ warned = <<>>

\* prepare returns Err(e).
Fail(e) ==
    /\ result' = [status |-> "Err", err |-> e]
    /\ pc' = "done"

\* fs::create_dir_all(&opts.output)?
CreateDir ==
    /\ pc = "create_dir"
    /\ \E ok \in BOOLEAN :
          IF ok
          THEN /\ out' = [out EXCEPT !.dir = TRUE]
               /\ pc' = IF paths = <<>> THEN "gen_label_map" ELSE "collect"
               /\ UNCHANGED result
          ELSE /\ Fail("IoError")
               /\ UNCHANGED out
    /\ UNCHANGED <<test_set_ratio, paths, cursor, input_examples, report, label_map,
                   test, train, part, queue, record, warned>>
    /\ UNCHANGED <<labelVars, splitVars, builderVars>>

\* One turn of the for_each over get_xml_paths(&opts.input).
Collect ==
    /\ pc = "collect"
    /\ LET st == collect([input_examples |-> input_examples, report |-> report],
                         paths[cursor])
       IN  /\ input_examples' = st.input_examples
           /\ report' = st.report
    /\ cursor' = cursor + 1
    /\ pc' = IF cursor' > Len(paths) THEN "gen_label_map" ELSE "collect"
    /\ UNCHANGED <<test_set_ratio, paths, label_map, test, train, part, queue, record,
                   out, result, warned>>
    /\ UNCHANGED <<labelVars, splitVars, builderVars>>

\* let label_map = gen_label_map(&opts, &input_examples)?; report.labels = true;
GenLabelMap ==
    /\ pc = "gen_label_map"
    /\ \E how \in {"ok", "open_err", "write_err", "flush_err"} :
          LET lm == build_label_map(input_examples)
              w  == write_to_file(lm, out.files, "label_map.txt", how)
          IN  /\ out' = [out EXCEPT !.files = w.files]
              /\ IF w.ret.ok
                 THEN /\ label_map' = Some(lm)
                      /\ report' = [report EXCEPT !.labels = TRUE]
                      /\ pc' = "split_dataset"
                      /\ UNCHANGED result
                 ELSE /\ Fail("LabelMap")
                      /\ UNCHANGED <<label_map, report>>
    /\ UNCHANGED <<test_set_ratio, paths, cursor, input_examples, test, train, part,
                   queue, record, warned>>
    /\ UNCHANGED <<labelVars, splitVars, builderVars>>

\* let (test, train) = split_dataset(input_examples, opts.test_set_ratio);
SplitDataset ==
    /\ pc = "split_dataset"
    /\ LET sets == split_dataset(input_examples, test_set_ratio)
       IN  /\ test' = sets.test
           /\ train' = sets.train
    /\ part' = "test"
    /\ pc' = "gen_tfrecord"
    /\ UNCHANGED <<test_set_ratio, paths, cursor, input_examples, report, label_map,
                   queue, record, out, result, warned>>
    /\ UNCHANGED <<labelVars, splitVars, builderVars>>

\* After gen_tfrecord returned Ok(flag) for the partition `part`: the report
\* flag is set on Some(()), then the next call is made or prepare returns.
Returned(flag) ==
    /\ report' = IF ~flag THEN report
                 ELSE IF part = "test" THEN [report EXCEPT !.test = TRUE]
                 ELSE [report EXCEPT !.train = TRUE]
    /\ IF part = "test"
       THEN /\ part' = "train"
            /\ pc' = "gen_tfrecord"
            /\ UNCHANGED result
       ELSE /\ part' = part
            /\ pc' = "done"
            /\ result' = [status |-> "Ok", err |-> ""]

\* gen_tfrecord, up to the creation of the RecordBuilder.
GenTfrecord ==
    /\ pc = "gen_tfrecord"
    /\ LET examples == IF part = "test" THEN test ELSE train
       IN  IF is_empty(examples)
           THEN /\ warned' = Append(warned, file_name(part))
                /\ Returned(FALSE)
                /\ UNCHANGED <<queue, record>>
           ELSE /\ record' = Some(RecordBuilder_new(0, label_map[1]))
                /\ queue' = examples
                /\ pc' = "add_example"
                /\ UNCHANGED <<part, report, result, warned>>
    /\ UNCHANGED <<test_set_ratio, paths, cursor, input_examples, label_map, test,
                   train, out>>
    /\ UNCHANGED <<labelVars, splitVars, builderVars>>

\* examples.into_iter().for_each(|e| record.add_example(e)), one turn.
AddExample ==
    /\ pc = "add_example"
    /\ queue # <<>>
    /\ record' = Some(add_example(record[1], Head(queue)))
    /\ queue' = Tail(queue)
    /\ UNCHANGED <<pc, test_set_ratio, paths, cursor, input_examples, report, label_map,
                   test, train, part, out, result, warned>>
    /\ UNCHANGED <<labelVars, splitVars, builderVars>>

\* record.write_tfrecord(&record_output)?; Ok(Some(()))
WriteTfrecord ==
    /\ pc = "add_example"
    /\ queue = <<>>
    /\ \E how \in {"ok", "open_err", "write_err"} :
          LET w == write_tfrecord(record[1], out.files, file_name(part), how)
          IN  /\ out' = [out EXCEPT !.files = w.files]
              /\ IF w.ret.ok
                 THEN Returned(TRUE)
                 ELSE /\ Fail("TfRecord")
                      /\ UNCHANGED <<part, report>>
    /\ record' = None
    /\ UNCHANGED <<test_set_ratio, paths, cursor, input_examples, label_map, test,
                   train, queue, warned>>
    /\ UNCHANGED <<labelVars, splitVars, builderVars>>

Next ==
    \/ CreateDir
    \/ Collect
    \/ GenLabelMap
    \/ SplitDataset
    \/ GenTfrecord
    \/ AddExample
    \/ WriteTfrecord

Spec == Init /\ [][Next]_vars

\* ------------------------------------------------------ SpecRecordBuilder
\* Calls of add_example on one RecordBuilder, whose registry is any registry
\* LabelMap::add can build, followed by the conversion of its features.

\* Number of add_example calls made on the builder.
MaxAdds == 3

\* The registry after the labels of q were added in that order.
registry_of(q) == add_all(LabelMap_new, [i \in 1..Len(q) |-> [name |-> q[i]]], Len(q))

Registries == {registry_of(q) : q \in DistinctSeqs(Labels, NumLabels)}

\* The annotations handed to add_example: the four documents of XmlFixtures
\* as from_file returns them, and one whose image is a readable .bmp file.
BuilderExamples ==
    [i \in 1..4 |-> from_file(XmlFixtures[i]).val]
    \o << from_file(Xml(Path("/in", "7", "xml"), TRUE,
               Some(Doc(FileName("7", "bmp"), Path("/in", "7", "bmp"), 320, 200,
                        <<Object("dog", 32, 20, 160, 100)>>)))).val >>

InitRecordBuilder ==
    /\ IdleLabel
    /\ IdleSplit
    /\ IdlePrepare
    /\ \E lm \in Registries : builder = RecordBuilder_new(0, lm)
    /\ log = <<>>
    /\ emitted = None

\* record.add_example(example)
RecordBuilder_add_example(example) ==
    /\ emitted = None
    /\ Len(log) < MaxAdds
    /\ builder' = add_example(builder, example)
    /\ log' = Append(log, [example  |-> example,
                           accepted |-> Len(builder'.features.filename)
                                            > Len(builder.features.filename)])
    /\ UNCHANGED emitted
    /\ UNCHANGED <<labelVars, splitVars, prepareVars>>

\* Example::from(features)
IntoExample ==
    /\ emitted = None
    /\ emitted' = Some(Example_from(builder.features))
    /\ UNCHANGED <<builder, log>>
    /\ UNCHANGED <<labelVars, splitVars, prepareVars>>

NextRecordBuilder ==
    \/ \E i \in 1..Len(BuilderExamples) : RecordBuilder_add_example(BuilderExamples[i])
    \/ IntoExample

SpecRecordBuilder == InitRecordBuilder /\ [][NextRecordBuilder]_vars

\* ------------------------------------------------- claims: the registry

\* C1: add(label) returns the id the registry holds for that label after the
\* call (the value get(label) returns), also when the label was already known.
C1_AddReturnsOwnId ==
    call.op = "add" => call.ret = LabelMap_get(registry, call.label)

\* C2: after any sequence of add calls distinct labels never share an id and
\* the stored ids are exactly 1..n, the k-th distinct label added holding id k.
C2_IdsDenseFirstSeen ==
    LET m == registry.map
    IN  /\ DOMAIN m = Range(order)
        /\ \A a, b \in DOMAIN m : a # b => m[a] # m[b]
        /\ {m[l] : l \in DOMAIN m} = 1..Cardinality(DOMAIN m)
        /\ \A k \in 1..Len(order) : m[order[k]] = k

\* Three distinct labels are stored and a known label has been added again.
C2_Witness ==
    /\ Len(order) >= 3
    /\ ncalls > Len(order)
    /\ call.op = "add"

\* C3: a get call leaves the registry (map and counter) as it was and returns
\* the id the label held when it was first stored, whatever calls were made in
\* between, and no value for a label that was never added.
C3_GetStable ==
    [][(call'.op = "get" /\ ncalls' # ncalls)
         => /\ registry' = registry
            /\ call'.ret = IF call'.label \in DOMAIN assigned
                           THEN Some(assigned[call'.label])
                           ELSE None]_vars

\* A get of the first label after two more labels, one of them twice, were
\* added.
C3_Witness ==
    /\ call.op = "get"
    /\ Len(order) >= 3
    /\ ncalls >= 5
    /\ call.label = order[1]
    /\ call.ret = Some(1)

\* --------------------------------------------------- claims: math::split

RECURSIVE PickFrom(_, _, _)
PickFrom(s, S, i) ==
    IF i > Len(s) THEN <<>>
    ELSE (IF i \in S THEN <<s[i]>> ELSE <<>>) \o PickFrom(s, S, i + 1)

\* C4: for a ratio in 0..100 split returns, and its two sides are the input
\* cut along one set of positions: the lengths add up, every position is on
\* exactly one side, and each side keeps the input's order.
C4_SplitPartition ==
    (split_out.status # "pending" /\ right_ratio <= 100)
        => /\ split_out.status = "ok"
           /\ Len(split_out.left) + Len(split_out.right) = Len(input)
           /\ \E S \in SUBSET (1..Len(input)) :
                /\ split_out.left = PickFrom(input, S, 1)
                /\ split_out.right = PickFrom(input, (1..Len(input)) \ S, 1)

\* Both sides are populated, one of them with two elements.
C4_Witness ==
    /\ split_out.status = "ok"
    /\ right_ratio <= 100
    /\ Len(split_out.left) >= 2
    /\ Len(split_out.right) >= 1

\* C5, as claimed: an item is in the right (second) set if its checksum is
\* >= round(ratio/100 * 0xFFFFFFFF), and in the left (first) set otherwise.
C5_RightIfAtLeastThreshold ==
    (split_out.status = "ok" /\ right_ratio <= 100)
        => LET t == Threshold(right_ratio)
               AtLeast(e) == U32Ge(checksum_ieee(e), t)
               Below(e) == U32Lt(checksum_ieee(e), t)
           IN  /\ split_out.right = SelectSeq(input, AtLeast)
               /\ split_out.left = SelectSeq(input, Below)

\* C5, amended: an item is in the right (second) set if its checksum is
\* < round(ratio/100 * 0xFFFFFFFF), and in the left (first) set otherwise.
C5_RightIfBelowThreshold ==
    (split_out.status = "ok" /\ right_ratio <= 100)
        => LET t == Threshold(right_ratio)
               AtLeast(e) == U32Ge(checksum_ieee(e), t)
               Below(e) == U32Lt(checksum_ieee(e), t)
           IN  /\ split_out.right = SelectSeq(input, Below)
               /\ split_out.left = SelectSeq(input, AtLeast)

\* At ratio 20 the element <<10>> (checksum 0x32D70693, below the threshold
\* 0x33333333) is on the right and <<1>> (0xA505DF1B) on the left.
C5_Witness ==
    /\ split_out.status = "ok"
    /\ right_ratio = 20
    /\ input = <<<<1>>, <<10>>, <<2>>>>
    /\ split_out.right = <<<<10>>>>
    /\ split_out.left = <<<<1>>, <<2>>>>

\* C7: for a ratio above 100 split returns, with the two sets of
\* split(items, 100).
C7_ClampAbove100 ==
    (split_out.status # "pending" /\ right_ratio > 100)
        => /\ split_out.status = "ok"
           /\ split_out = split(input, 100)

\* ------------------------------------------------------ claims: prepare

\* split_dataset has run.
SplitDone == part # ""

\* The annotations that parse among the first n discovered files, in order.
RECURSIVE ParsedOk(_, _)
ParsedOk(ps, n) ==
    IF n = 0 THEN <<>>
    ELSE LET r == from_file(ps[n])
         IN  ParsedOk(ps, n - 1) \o (IF r.ok THEN <<r.val>> ELSE <<>>)

\* The files that fail to parse among the first n, each with its cause.
RECURSIVE ParsedErr(_, _)
ParsedErr(ps, n) ==
    IF n = 0 THEN <<>>
    ELSE LET r == from_file(ps[n])
         IN  ParsedErr(ps, n - 1) \o (IF r.ok THEN <<>> ELSE <<<<ps[n].path, r.val>>>>)

\* Every object label of every annotation of the corpus that parses.
AllLabels ==
    LET ok == ParsedOk(paths, Len(paths))
    IN  UNION {{ok[i].objects[j].name : j \in 1..Len(ok[i].objects)} : i \in 1..Len(ok)}

Written(name) == name \in DOMAIN out.files

\* C6: at test ratio 100 every content is retained, whatever its checksum:
\* after split_dataset every annotation whose image can be read is in the
\* test set and none of them is in the train set, and split at ratio 100
\* puts the image's bytes on the ratio side (the second set).
C6_RetainAllAt100 ==
    (SplitDone /\ test_set_ratio = 100)
        => \A i \in 1..Len(input_examples) :
              LET read == fs_read(input_examples[i].system_path)
              IN  read.ok => /\ retain(read.val, 100)
                             /\ input_examples[i] \in Range(test)
                             /\ input_examples[i] \notin Range(train)
                             /\ split(<<read.val>>, 100).right = <<read.val>>

\* An example is being encoded, or a record file exists.
EncodingStarted ==
    \/ pc = "add_example"
    \/ record # None
    \/ Written("test.tfrecord")
    \/ Written("train.tfrecord")

\* C8: once an example is being encoded or a record file exists, the pass
\* over all discovered files is over, the registry holds every object label
\* of every annotation that parsed, and label_map.txt has been written; from
\* then on neither the registry nor the copy held by the encoder changes.
C8_TwoPass ==
    [][/\ EncodingStarted'
          => /\ cursor' > Len(paths')
             /\ label_map' # None
             /\ AllLabels' \subseteq DOMAIN label_map'[1].map
             /\ Written("label_map.txt")'
             /\ report'.labels
             /\ record' # None => record'[1].label_map = label_map'[1]
       /\ EncodingStarted
          => /\ label_map' = label_map
             /\ (record # None /\ record' # None)
                   => record'[1].label_map = record[1].label_map]_vars

\* An example has been accepted and another is about to be encoded, in a run
\* where one file failed to parse and the registry holds two labels or more.
C8_Witness ==
    /\ pc = "add_example"
    /\ queue # <<>>
    /\ record # None
    /\ Len(record[1].features.filename) >= 1
    /\ report.invalid_annotations # <<>>
    /\ Cardinality(AllLabels) >= 2

\* C9: every discovered path is accounted for exactly once: after n files
\* were visited the report counts the ones that parsed and lists the others
\* with their cause, valid + invalid = n, the annotations that parsed are all
\* kept for processing, and once the run is past the collection every
\* discovered file was visited, whatever failed to parse.
C9_ParseFailureRecorded ==
    LET n == cursor - 1
    IN  /\ report.valid_annotations + Len(report.invalid_annotations) = n
        /\ report.valid_annotations = Len(ParsedOk(paths, n))
        /\ report.invalid_annotations = ParsedErr(paths, n)
        /\ input_examples = ParsedOk(paths, n)
        /\ (pc \notin {"create_dir", "collect"} /\ result.err # "IoError")
              => n = Len(paths)

\* The run returned a report after the first discovered file failed to parse
\* and a later one parsed.
C9_Witness ==
    /\ pc = "done"
    /\ result.status = "Ok"
    /\ Len(paths) >= 3
    /\ ~from_file(paths[1]).ok
    /\ report.valid_annotations >= 1
    /\ Len(report.invalid_annotations) >= 2

NoneParseable == \A i \in 1..Len(paths) : ~from_file(paths[i]).ok

\* C10: a record file is written, and its Report flag set, only for a
\* partition with at least one member, and in a run that returns a Report
\* for every such partition. With no parseable annotation the run fails only
\* if creating the directory or writing the label map fails; otherwise it
\* returns a Report with test = train = false, the directory and an empty
\* label map file exist, no record file does, and each partition was warned of.
C10_EmptyPartitionSkipped ==
    /\ (report.test \/ Written("test.tfrecord")) => test # <<>>
    /\ (report.train \/ Written("train.tfrecord")) => train # <<>>
    /\ (pc = "done" /\ result.status = "Ok")
          => /\ test # <<>> => (report.test /\ Written("test.tfrecord"))
             /\ train # <<>> => (report.train /\ Written("train.tfrecord"))
    /\ (pc = "done" /\ NoneParseable)
          => IF result.status = "Ok"
             THEN /\ out.dir
                  /\ Written("label_map.txt")
                  /\ out.files["label_map.txt"].items = {}
                  /\ ~Written("test.tfrecord")
                  /\ ~Written("train.tfrecord")
                  /\ ~report.test
                  /\ ~report.train
                  /\ report.labels
                  /\ warned = <<"test.tfrecord", "train.tfrecord">>
             ELSE result.err \in {"IoError", "LabelMap"}

\* A run over two files, neither of which parses, returned a Report.
C10_Witness ==
    /\ pc = "done"
    /\ result.status = "Ok"
    /\ Len(paths) >= 2
    /\ NoneParseable
    /\ out.files["label_map.txt"].complete
    /\ warned = <<"test.tfrecord", "train.tfrecord">>

\* One partition is empty and the other is not, in a run that returned a
\* Report.
C10_WitnessOneEmpty ==
    /\ pc = "done"
    /\ result.status = "Ok"
    /\ test = <<>>
    /\ train # <<>>

\* ------------------------------------------- claims: stage-level failures

\* The write of an output file failed after the file was created.
WriteFailed(name) == Written(name) /\ ~out.files[name].complete

\* C11: a stage-level I/O failure aborts the run. If the output directory
\* cannot be created nothing else is done; if the write of label_map.txt
\* fails prepare returns an error and no record file is written; if the
\* write of test.tfrecord fails prepare returns an error and train.tfrecord
\* is not written; prepare never returns a Report after a failed stage.
C11_StageFailureAborts ==
    /\ result.err = "IoError"
          => /\ pc = "done"
             /\ result.status = "Err"
             /\ out.files = NoFiles
             /\ cursor = 1
             /\ report = Report_default
    /\ (WriteFailed("label_map.txt") \/ result.err = "LabelMap")
          => /\ pc = "done"
             /\ result = [status |-> "Err", err |-> "LabelMap"]
             /\ ~Written("test.tfrecord")
             /\ ~Written("train.tfrecord")
    /\ (WriteFailed("test.tfrecord") \/ (result.err = "TfRecord" /\ part = "test"))
          => /\ pc = "done"
             /\ result = [status |-> "Err", err |-> "TfRecord"]
             /\ ~Written("train.tfrecord")
    /\ WriteFailed("train.tfrecord")
          => /\ pc = "done"
             /\ result = [status |-> "Err", err |-> "TfRecord"]
    /\ result.status = "Ok"
          => /\ out.dir
             /\ \A name \in DOMAIN out.files : out.files[name].complete

\* C11 without the write of label_map.txt: the same statement for the other
\* stages, and for a label map whose write fails with an error returned.
C11_OtherStagesAbort ==
    (Written("label_map.txt") => out.files["label_map.txt"].complete)
        => C11_StageFailureAborts

\* ------------------------------------------------ claims: RecordBuilder

\* The spellings of an accepted image extension that occur.
ImageExts == {"png", "PNG", "jpg", "JPG", "jpeg", "JPEG"}

\* C12: add_example drops an example as a whole and never fails. If a label
\* of one of its objects is absent from the registry, or the extension of the
\* image it opens is not png/jpg/jpeg in any case, or that image cannot be
\* read, the feature buffer and current_size are as before the call and one
\* entry is appended to ignored; otherwise the example is added to the buffer
\* and ignored is unchanged. After every call accepted + ignored is the
\* number of calls, and the registry of the builder is as before.
C12_DropsWholeExample ==
    [][log' # log
        => LET e == log'[Len(log')].example
               absent == \E i \in 1..Len(e.objects) :
                             e.objects[i].name \notin DOMAIN builder.label_map.map
               badext == e.path.ext \notin ImageExts
               read == fs_read(e.path)
               f == builder.features
               g == builder'.features
           IN  /\ IF absent \/ badext \/ ~read.ok
                  THEN /\ g = f
                       /\ builder'.current_size = builder.current_size
                       /\ Len(builder'.ignored) = Len(builder.ignored) + 1
                       /\ SubSeq(builder'.ignored, 1, Len(builder.ignored)) = builder.ignored
                       /\ ~log'[Len(log')].accepted
                  ELSE /\ builder'.ignored = builder.ignored
                       /\ g.filename = Append(f.filename, e.filename)
                       /\ g.image_bytes = Append(f.image_bytes, read.val)
                       /\ builder'.current_size = builder.current_size + Len(read.val)
                       /\ log'[Len(log')].accepted
               /\ Len(g.filename) + Len(builder'.ignored) = Len(log')
               /\ builder'.label_map = builder.label_map]_vars

\* Three calls: an example is accepted, one with a readable image is dropped
\* for a label the registry lacks, one is dropped for its extension.
C12_Witness ==
    /\ Len(log) = 3
    /\ log[1].accepted
    /\ ~log[2].accepted
    /\ log[2].example.path.ext \in ImageExts
    /\ fs_read(log[2].example.path).ok
    /\ \E i \in 1..Len(log[2].example.objects) :
          log[2].example.objects[i].name \notin DOMAIN builder.label_map.map
    /\ ~log[3].accepted
    /\ log[3].example.path.ext = "bmp"
    /\ Len(builder.ignored) = 2
    /\ Len(builder.features.filename) = 1

\* The annotations add_example accepted, in the order of the calls.
RECURSIVE Accepted(_, _)
Accepted(l, n) ==
    IF n = 0 THEN <<>>
    ELSE Accepted(l, n - 1) \o (IF l[n].accepted THEN <<l[n].example>> ELSE <<>>)

\* The attribute names of the fixed table.
AttributeTable ==
    {"image/height", "image/width", "image/filename", "image/source_id",
     "image/encoded", "image/format",
     "image/object/bbox/xmin", "image/object/bbox/xmax",
     "image/object/bbox/ymin", "image/object/bbox/ymax",
     "image/object/class/label", "image/object/class/text"}

\* C13: an example emitted from the features of accepted annotations carries
\* the complete attribute table: its attribute map has the twelve names of
\* the table, image/filename and image/source_id both holding the
\* annotations' filename.
C13_CompleteAttributeTable ==
    (emitted # None /\ Len(builder.features.filename) >= 1)
        => LET ok == Accepted(log, Len(log))
               names == [i \in 1..Len(ok) |-> ok[i].filename]
           IN  /\ AttributeTable \subseteq DOMAIN emitted[1]
               /\ emitted[1]["image/filename"] = names
               /\ emitted[1]["image/source_id"] = names

\* What holds of the emitted example: the names it carries are names of the
\* table, and the two file name attributes hold the annotations' filename.
C13_AttributesPresent ==
    (emitted # None /\ Len(builder.features.filename) >= 1)
        => LET ok == Accepted(log, Len(log))
               names == [i \in 1..Len(ok) |-> ok[i].filename]
           IN  /\ DOMAIN emitted[1] \subseteq AttributeTable
               /\ emitted[1]["image/filename"] = names
               /\ emitted[1]["image/source_id"] = names

\* C14: for every accepted example the height field of the record holds the
\* annotation's size.height and the width field its size.width, one value
\* each, and the emitted image/height and image/width are these fields.
C14_HeightAndWidth ==
    LET ok == Accepted(log, Len(log))
        f == builder.features
    IN  /\ f.height = [k \in 1..Len(ok) |-> ok[k].size.height]
        /\ f.width = [k \in 1..Len(ok) |-> ok[k].size.width]
        /\ emitted # None
              => /\ emitted[1]["image/height"] = f.height
                 /\ emitted[1]["image/width"] = f.width

\* The examples of the partition being encoded that were handed to
\* add_example so far.
Encoded ==
    LET examples == IF part = "test" THEN test ELSE train
    IN  SubSeq(examples, 1, Len(examples) - Len(queue))

\* C15: the encoder reads the companion image, the file beside the source
\* annotation named by its filename field (system_path), whose bytes decided
\* the partition: an example is accepted when that file has an image
\* extension and can be read, and image/encoded and image/format hold that
\* file's bytes and extension, whatever path the XML declares.
C15_EncoderReadsCompanion ==
    record # None
        => LET Good(e) == /\ e.system_path.ext \in ImageExts
                          /\ fs_read(e.system_path).ok
                          /\ map_labels(e, record[1].label_map) # None
               ok == SelectSeq(Encoded, Good)
               f == record[1].features
           IN  /\ f.image_bytes = [k \in 1..Len(ok) |-> fs_read(ok[k].system_path).val]
               /\ f.image_format = [k \in 1..Len(ok) |-> ok[k].system_path.ext]
               /\ Len(record[1].ignored) = Len(Encoded) - Len(ok)

\* What the encoder does: the same statement with the path declared inside
\* the XML in place of the companion file.
C15_EncoderReadsDeclaredPath ==
    record # None
        => LET Good(e) == /\ e.path.ext \in ImageExts
                          /\ fs_read(e.path).ok
                          /\ map_labels(e, record[1].label_map) # None
               ok == SelectSeq(Encoded, Good)
               f == record[1].features
           IN  /\ f.image_bytes = [k \in 1..Len(ok) |-> fs_read(ok[k].path).val]
               /\ f.image_format = [k \in 1..Len(ok) |-> ok[k].path.ext]
               /\ Len(record[1].ignored) = Len(Encoded) - Len(ok)

\* C16: for every accepted example the four coordinate lists, the class id
\* list and the class name list have one entry per object of the annotation,
\* and entry i of each describes the i-th object: its box coordinates over
\* the image's width or height, the id the registry holds for its label, and
\* its name.
C16_ObjectListsAligned ==
    LET ok == Accepted(log, Len(log))
        f == builder.features
        ids == builder.label_map.map
    IN  /\ Len(f.xmins) = Len(ok) /\ Len(f.xmaxs) = Len(ok)
        /\ Len(f.ymins) = Len(ok) /\ Len(f.ymaxs) = Len(ok)
        /\ Len(f.classes) = Len(ok) /\ Len(f.classes_text) = Len(ok)
        /\ \A k \in 1..Len(ok) :
              LET e == ok[k]
                  n == Len(e.objects)
              IN  /\ Len(f.xmins[k]) = n /\ Len(f.xmaxs[k]) = n
                  /\ Len(f.ymins[k]) = n /\ Len(f.ymaxs[k]) = n
                  /\ Len(f.classes[k]) = n /\ Len(f.classes_text[k]) = n
                  /\ \A i \in 1..n :
                        LET o == e.objects[i]
                        IN  /\ f.xmins[k][i] = [num |-> o.bndbox.xmin, den |-> e.size.width]
                            /\ f.xmaxs[k][i] = [num |-> o.bndbox.xmax, den |-> e.size.width]
                            /\ f.ymins[k][i] = [num |-> o.bndbox.ymin, den |-> e.size.height]
                            /\ f.ymaxs[k][i] = [num |-> o.bndbox.ymax, den |-> e.size.height]
                            /\ o.name \in DOMAIN ids
                            /\ f.classes[k][i] = ids[o.name]
                            /\ f.classes_text[k][i] = o.name

\* An annotation with two objects of different labels was accepted after a
\* dropped one, and one more after it.
C16_Witness ==
    /\ Len(log) = 3
    /\ ~log[1].accepted
    /\ log[2].accepted
    /\ Len(log[2].example.objects) = 2
    /\ log[2].example.objects[1].name # log[2].example.objects[2].name
    /\ log[3].accepted
    /\ log[3].example # log[2].example
    /\ Len(builder.features.classes) = 2
    /\ builder.features.classes[1][1] # builder.features.classes[1][2]

\* ------------------------------------------------ claims: split_dataset

\* C17: in split_dataset an annotation whose image file cannot be read is
\* never put in the test set: at every ratio it is in the train set; the
\* call does not end the run; and the parsed annotations are cut into test
\* and train along one set of positions, each in discovery order.
C17_UnreadableImageInTrain ==
    SplitDone
        => /\ \A i \in 1..Len(input_examples) :
                 ~fs_read(input_examples[i].system_path).ok
                     => /\ input_examples[i] \in Range(train)
                        /\ input_examples[i] \notin Range(test)
           /\ \E S \in SUBSET (1..Len(input_examples)) :
                 /\ test = PickFrom(input_examples, S, 1)
                 /\ train = PickFrom(input_examples, (1..Len(input_examples)) \ S, 1)
           /\ input_examples = ParsedOk(paths, Len(paths))
           /\ (pc = "gen_tfrecord" /\ part = "test") => result = Running
           /\ result.status = "Err" => result.err = "TfRecord"

\* At ratio 100 a run returned a Report with an annotation whose image is
\* missing in the train set, between two annotations of the test set in
\* discovery order.
C17_Witness ==
    /\ pc = "done"
    /\ result.status = "Ok"
    /\ test_set_ratio = 100
    /\ Len(input_examples) = 3
    /\ ~fs_read(input_examples[2].system_path).ok
    /\ train = <<input_examples[2]>>
    /\ test = <<input_examples[1], input_examples[3]>>

====
